---- MODULE Spec2Model ----
(***************************************************************************)
(* State-machine model of the asym_uncertainty package: the class Unc      *)
(* (asym_uncertainty.py), its setters (io.py), the operator dispatch       *)
(* (algebra.py), the sampler and the coverage interval (mc_statistics.py)  *)
(* and the evaluation of a sample (evaluation.py).                         *)
(*                                                                         *)
(* Numbers live on the integer grid.  math.inf is the grid value inf, and  *)
(* every finite number of the model is smaller in magnitude (MaxAbs).      *)
(* A division is taken only where it is exact on the grid and a power only *)
(* for a non-negative integer exponent (guards of the operator actions).   *)
(***************************************************************************)
EXTENDS Integers, Sequences, FiniteSets, TLC

VARIABLES
    objs,         \* the live Unc objects, in order of creation (handle = index)
    lists,        \* the Python list objects used as limits (handle = index)
    n_instances,  \* Unc.n_instances, the class-wide instance counter
    rng,          \* state of numpy's global random number generator
    last,         \* what the last call was, whether it raised, what it warned
    calls,        \* the number of calls so far
    threads       \* the threads that run Unc.__init__: where each of them is

vars == <<objs, lists, n_instances, rng, last, calls, threads>>

----------------------------------------------------------------------------
(* Bounds of the model *)

MaxObjs == 3      \* live Unc objects
MaxUser == 2      \* of which constructed by the user
MaxAbs == 40      \* magnitude of a finite number
RngMod == 3       \* number of states of the random number generator
DefaultNRandom == 3  \* stands for int(1e6), the default n_random
MaxCalls == 4     \* calls in a run
MaxSeed == 4      \* value of the instance counter
MaxSample == 4    \* length of a sample handed to the evaluation
MaxValue == 3     \* largest value of such a sample
MaxEvalCalls == 1 \* calls in a run of the evaluation
ManyLen == 201    \* length of a long array of retained samples
NThreads == 2     \* threads that construct objects
MaxThreadObjs == 2  \* objects a thread constructs

(* Program constants *)

inf == 100                   \* math.inf
coverage_percent_x100 == 6827  \* coverage_percent = 68.27
few_values == 1000           \* "less than 1000 values"
few_percent == 1             \* "less than 1 percent"

----------------------------------------------------------------------------
(* Helpers on numbers and arrays *)

Abs(x) == IF x < 0 THEN -x ELSE x
Min(x, y) == IF x <= y THEN x ELSE y
Max(x, y) == IF x >= y THEN x ELSE y
Clamp(x, lo, hi) == Max(lo, Min(hi, x))

Range(s) == {s[i] : i \in 1..Len(s)}
Count(s, v) == Cardinality({i \in 1..Len(s) : s[i] = v})
SelectIn(s, lo, hi) == SelectSeq(s, LAMBDA v : v >= lo /\ v <= hi)

(* numpy.sort *)
sort(s) == SortSeq(s, LAMBDA a, b : a < b)

RECURSIVE Pow(_, _)
Pow(b, e) == IF e <= 0 THEN 1 ELSE b * Pow(b, e - 1)

(* The default random_values=array([0.]) of Unc.__init__ *)
default_random_values == <<0>>

(* A Python argument that may be None, an int or a float that is no int *)
None == [kind |-> "none", val |-> 0]
IntArg(v) == [kind |-> "int", val |-> v]
FloatArg(v) == [kind |-> "float", val |-> v]

(* A Python list: its elements, and whether all of them are int or float *)
List(v) == [v |-> v, num |-> TRUE]
BadList(v) == [v |-> v, num |-> FALSE]

----------------------------------------------------------------------------
(* mc_statistics.py *)

(* check_num_array_argument: TRUE iff it raises ValueError *)
check_num_array_argument(input_array, array_length, is_positive, is_increasing) ==
    \/ Len(input_array.v) # array_length
    \/ ~input_array.num
    \/ is_positive /\ \E i \in 1..Len(input_array.v) : input_array.v[i] < 0
    \/ is_increasing /\ ~(input_array.v[2] - input_array.v[1] >= 0)

(* cdf: the sorted sample (the second row, linspace(0, 1, n), is implicit) *)
cdf(rand) == sort(rand)

(* int(coverage_percent*0.01*n_rand) *)
coverage_interval(n_rand) == (coverage_percent_x100 * n_rand) \div 10000

(* The first window, whatever its width *)
s_cov_index_first(x) == 1

(* argmin(dist[coverage_interval:]), 1-based: the first index of the narrowest window *)
s_cov_index(x) ==
    LET k == coverage_interval(Len(x))
        I == 1..(Len(x) - k)
    IN  CHOOSE i \in I :
            /\ \A j \in I : Abs(x[i + k] - x[i]) <= Abs(x[j + k] - x[j])
            /\ \A j \in I : j < i => Abs(x[j + k] - x[j]) > Abs(x[i + k] - x[i])

(* shortest_coverage(cum_dis_fun), uncertainty_estimate=False *)
shortest_coverage(x) ==
    LET i == s_cov_index(x)
    IN  <<x[i], x[i + coverage_interval(Len(x))]>>

(* A seed that leaves the generator in the state it is in *)
seed_rng_unseeded(random_seed) == rng

(* numpy.random.seed and one draw of the global generator *)
seed_rng(random_seed) == random_seed % RngMod

draw(state, j) == (state + j) % RngMod
is_plus(d) == 2 * d >= RngMod      \* plusminus >= lim with lim = 0.5
half_normal(d) == d % 3            \* absolute(normal()) in units of sigma

(* The draws of randn_asym, from the state s0 of the generator: *)
(* [err, rand, rng]                                             *)
randn_asym_draws(mean_value, sigma, limits, n_random, s0) ==
    LET lo == limits.v[1]
        hi == limits.v[2]
        plus(i) == is_plus(draw(s0, i))
        z1(i) == half_normal(draw(s0, n_random + i))
        z2(i) == half_normal(draw(s0, 2 * n_random + i))
    IN  IF lo = -inf /\ hi = inf
        THEN [err |-> FALSE,
              rand |-> [i \in 1..n_random |->
                          IF plus(i) THEN mean_value + z1(i) * sigma[2]
                          ELSE mean_value - z2(i) * sigma[1]],
              rng |-> draw(s0, 3 * n_random)]
        ELSE IF mean_value <= lo
        THEN [err |-> FALSE,
              rand |-> [i \in 1..n_random |->
                          Clamp(mean_value + z1(i) * sigma[2], lo, hi)],
              rng |-> draw(s0, 2 * n_random)]
        ELSE IF mean_value >= hi
        THEN [err |-> FALSE,
              rand |-> [i \in 1..n_random |->
                          Clamp(mean_value - z1(i) * sigma[1], lo, hi)],
              rng |-> draw(s0, 2 * n_random)]
        ELSE [err |-> FALSE,
              rand |-> [i \in 1..n_random |->
                          IF plus(i) THEN Min(hi, mean_value + z2(i) * sigma[2])
                          ELSE Max(lo, mean_value - z1(i) * sigma[1])],
              rng |-> draw(s0, 3 * n_random)]

(* randn_asym(mean_value, sigma, limits, random_seed=seed, n_random) for an *)
(* int seed: [err, rand, rng]; err iff it raises                            *)
randn_asym(mean_value, sigma, limits, random_seed, n_random, state) ==
    IF \/ check_num_array_argument(limits, 2, FALSE, TRUE)
       \/ check_num_array_argument(List(sigma), 2, TRUE, FALSE)
       \/ random_seed < 0
    THEN [err |-> TRUE, rand |-> <<>>, rng |-> state]
    ELSE randn_asym_draws(mean_value, sigma, limits, n_random, seed_rng(random_seed))

(* randn_asym for any random_seed: None (the default: the generator goes on *)
(* from the state it is in), an int, or something else                      *)
randn_asym_any(mean_value, sigma, limits, random_seed, n_random, state) ==
    IF \/ check_num_array_argument(limits, 2, FALSE, TRUE)
       \/ check_num_array_argument(List(sigma), 2, TRUE, FALSE)
       \/ random_seed.kind \notin {"none", "int"}
    THEN [err |-> TRUE, rand |-> <<>>, rng |-> state]
    ELSE IF random_seed.kind = "none"
    THEN randn_asym_draws(mean_value, sigma, limits, n_random, state)
    ELSE randn_asym(mean_value, sigma, limits, random_seed.val, n_random, state)

----------------------------------------------------------------------------
(* evaluation.py *)

(* The centre of the tallest bin of the histogram of data_inside, with bins *)
(* of width one on the grid; argmax takes the first of the tallest bins.    *)
most_probable(data_inside) ==
    CHOOSE v \in Range(data_inside) :
        /\ \A w \in Range(data_inside) : Count(data_inside, w) <= Count(data_inside, v)
        /\ \A w \in Range(data_inside) :
               Count(data_inside, w) = Count(data_inside, v) => v <= w

(* gaussian_kde(data_inside): TRUE iff it raises, as it does for fewer than *)
(* two values.  Values that are all equal are taken to be evaluated: the    *)
(* tests build retaining exact objects (test_division: 1./a).               *)
gaussian_kde(data_inside) == Len(data_inside) < 2

(* evaluate(rand_result, force_inside_shortest_coverage=True): [err, val].  *)
(* val is eval_result[0], with the mode of the histogram for the mode.      *)
evaluate(rand_result) ==
    IF Len(rand_result) < 2
    THEN [err |-> TRUE, val |-> <<0, 0, 0>>]
    ELSE
    LET s_cov == shortest_coverage(cdf(rand_result))
        data_inside == SelectIn(rand_result, s_cov[1], s_cov[2])
        mp == most_probable(data_inside)
    IN  [err |-> gaussian_kde(data_inside), val |-> <<mp, mp - s_cov[1], s_cov[2] - mp>>]

(* evaluate(rand_result, force_inside_shortest_coverage): [err, error, val]. *)
(* Without force_inside_shortest_coverage nothing assigns most_probable     *)
(* (the else branch is commented out), and the return statement raises      *)
(* UnboundLocalError.                                                       *)
evaluate_any(rand_result, force_inside_shortest_coverage) ==
    IF force_inside_shortest_coverage
    THEN LET e == evaluate(rand_result)
         IN  [err |-> e.err, error |-> IF e.err THEN "ValueError" ELSE "none",
              val |-> e.val]
    ELSE [err |-> TRUE, error |-> "UnboundLocalError", val |-> <<0, 0, 0>>]

----------------------------------------------------------------------------
(* io.py: the setters.  A method returns [err, o, rng, warns]: whether it  *)
(* raised, the object as it is left behind, the generator state and the    *)
(* warnings it emitted.                                                    *)

Ok(o, state, warns) == [err |-> FALSE, o |-> o, rng |-> state, warns |-> warns]
Raised(o, state, warns) == [err |-> TRUE, o |-> o, rng |-> state, warns |-> warns]

(* set_mean_value *)
set_mean_value(self, mean_value) == [self EXCEPT !.mean_value = mean_value]

(* set_sigma_low without its check of the sign *)
set_sigma_low_unchecked(self, sigma_low) ==
    [err |-> FALSE,
     o |-> [self EXCEPT !.sigma_low = sigma_low,
                        !.is_exact = (sigma_low = 0 /\ self.sigma_up = 0)]]

(* set_sigma_low: [err, o] *)
set_sigma_low(self, sigma_low) ==
    IF sigma_low < 0
    THEN [err |-> TRUE, o |-> self]
    ELSE [err |-> FALSE,
          o |-> [self EXCEPT !.sigma_low = sigma_low,
                             !.is_exact = (sigma_low = 0 /\ self.sigma_up = 0)]]

(* set_sigma_up that leaves is_exact as it was *)
set_sigma_up_stale(self, sigma_up) ==
    IF sigma_up < 0
    THEN [err |-> TRUE, o |-> self]
    ELSE [err |-> FALSE, o |-> [self EXCEPT !.sigma_up = sigma_up]]

(* set_sigma_up: [err, o] *)
set_sigma_up(self, sigma_up) ==
    IF sigma_up < 0
    THEN [err |-> TRUE, o |-> self]
    ELSE [err |-> FALSE,
          o |-> [self EXCEPT !.sigma_up = sigma_up,
                             !.is_exact = (self.sigma_low = 0 /\ sigma_up = 0)]]

(* The three calls that end __init__ (random_values given) and            *)
(* sample_random_numbers: set_mean_value, set_sigma_low, set_sigma_up     *)
set_eval_result(self, eval_result, state, warns) ==
    LET o1 == set_mean_value(self, eval_result.val[1])
        r2 == set_sigma_low(o1, eval_result.val[2])
        r3 == set_sigma_up(r2.o, eval_result.val[3])
    IN  IF eval_result.err THEN Raised(self, state, warns)
        ELSE IF r2.err THEN Raised(r2.o, state, warns)
        ELSE IF r3.err THEN Raised(r3.o, state, warns)
        ELSE Ok(r3.o, state, warns)

(* An inverse that leaves the range of the knots *)
inverse_cdf_below(sorted, d) == sorted[1] - 1

(* inverse_cdf(u) for the draw d, u = d/RngMod: the knot nearest to u*(m-1) *)
inverse_cdf(sorted, d) ==
    sorted[1 + (2 * d * (Len(sorted) - 1) + RngMod) \div (2 * RngMod)]

(* The end of sample_random_numbers for r the result of randn_asym:       *)
(* self.random_values = r, then evaluate and the three setters            *)
set_random_values(self, r, state) ==
    IF r.err THEN Raised(self, state, <<>>)
    ELSE set_eval_result([self EXCEPT !.random_values = r.rand], evaluate(r.rand),
                         r.rng, <<>>)

(* sample_random_numbers; limits is the list self.limits refers to *)
sample_random_numbers(self, limits, state) ==
    IF Len(self.random_values) > 1
    THEN
        LET cdf_generating_random_values ==
                SelectIn(self.random_values, limits.v[1], limits.v[2])
            m == Len(cdf_generating_random_values)
            w1 == IF m < few_values THEN <<"few_values">> ELSE <<>>
            w2 == IF 100 * m < few_percent * Len(self.random_values)
                  THEN <<"few_percent">> ELSE <<>>
            sorted == cdf(cdf_generating_random_values)
            new_values == [i \in 1..self.n_random |-> inverse_cdf(sorted, draw(state, i))]
            o1 == [self EXCEPT !.random_values = new_values]
        IN  IF m < 2 THEN Raised(self, state, <<>>)
            ELSE set_eval_result(o1, evaluate(new_values),
                                 draw(state, self.n_random), w1 \o w2)
    ELSE
        set_random_values(self, randn_asym(self.mean_value,
                                           <<self.sigma_low, self.sigma_up>>, limits,
                                           self.seed, self.n_random, state), state)

(* r without the warnings w *)
warned_silent(w, r) == r

(* r, a result [err, o, rng, warns], after the warnings w *)
warned(w, r) == [r EXCEPT !.warns = w \o r.warns]

(* set_n_random *)
set_n_random(self, n_random, limits, state) ==
    IF n_random.kind # "int" \/ n_random.val < 2
    THEN Raised(self, state, <<>>)
    ELSE
    LET o1 == [self EXCEPT !.n_random = n_random.val]
    IN  IF ~self.store THEN Ok(o1, state, <<>>)
        ELSE IF Len(self.random_values) >= n_random.val
        THEN Ok([o1 EXCEPT !.random_values = SubSeq(self.random_values, 1, n_random.val)],
                state, <<>>)
        ELSE
        warned(IF Len(self.random_values) > 1 THEN <<"n_random_larger">> ELSE <<>>,
               sample_random_numbers(o1, limits, state))

(* check_limit_update that lets every update pass *)
check_limit_update_lenient(old_limits, new_limits) == [err |-> FALSE, warns |-> <<>>]

(* check_limit_update: [err, warns] *)
check_limit_update(old_limits, new_limits) ==
    IF new_limits[1] >= old_limits[2] \/ new_limits[2] <= old_limits[1]
    THEN [err |-> TRUE, warns |-> <<>>]
    ELSE [err |-> FALSE,
          warns |-> IF new_limits[1] < old_limits[1] \/ new_limits[2] > old_limits[2]
                    THEN <<"limits_larger">> ELSE <<>>]

----------------------------------------------------------------------------
(* asym_uncertainty.py: Unc.__init__ *)

(* The limits argument: None, a list the caller builds for the call, or a *)
(* list object that already exists (lists[h])                             *)
LimNone == [kind |-> "none", h |-> 0, list |-> List(<<>>)]
LimNew(l) == [kind |-> "new", h |-> 0, list |-> l]
LimRef(h) == [kind |-> "ref", h |-> h, list |-> List(<<>>)]

CtorArgs(mean_value, sigma_low, sigma_up, limits, store, random_values, n_random) ==
    [mean_value |-> mean_value, sigma_low |-> sigma_low, sigma_up |-> sigma_up,
     limits |-> limits, store |-> store, random_values |-> random_values,
     n_random |-> n_random]

(* A counter that stands still *)
increment_none(n_inst) == n_inst

(* Unc.n_instances += 1 *)
increment(n_inst) == n_inst + 1

(* The end of __init__ when random_values are given, for r1 the result of *)
(* self.set_n_random(len(random_values)): evaluate and the three setters  *)
given_random_values(r1, random_values) ==
    IF r1.err THEN r1
    ELSE set_eval_result(r1.o, evaluate(random_values), r1.rng, r1.warns)

(* What __init__ returns for r the result [err, o, rng, warns] of its last *)
(* part, after the warnings w                                              *)
constructed(r, w, lim, fresh, n_inst) ==
    [err |-> r.err, o |-> r.o, lim |-> lim, fresh |-> fresh,
     n_instances |-> increment(n_inst), rng |-> r.rng, warns |-> w \o r.warns]

(* Unc.__init__(a): [err, o, lim, fresh, n_instances, rng, warns]; o is the *)
(* new object, lim the list its limits refer to, fresh whether that list is *)
(* a new list object; n_instances and rng are left as the call leaves them  *)
Unc_init(a, ls, fresh_handle, n_inst, state) ==
    LET lim == IF a.limits.kind = "none" THEN List(<<-inf, inf>>)
               ELSE IF a.limits.kind = "new" THEN a.limits.list
               ELSE ls[a.limits.h]
        fresh == a.limits.kind # "ref"
        handle == IF fresh THEN fresh_handle ELSE a.limits.h
        o0 == [mean_value |-> a.mean_value,
               sigma_low |-> a.sigma_low,
               sigma_up |-> a.sigma_up,
               is_exact |-> (a.sigma_low = 0 /\ a.sigma_up = 0),
               limits |-> handle,
               seed |-> n_inst,
               store |-> a.store,
               random_values |-> a.random_values,
               n_random |-> 0]
        w0 == IF ~a.store /\ Len(a.random_values) > 1 THEN <<"store_false">> ELSE <<>>
        w1 == IF /\ Len(a.random_values) > 1
                 /\ a.n_random.kind # "none"
                 /\ ~(a.n_random.kind = "int" /\ a.n_random.val = Len(a.random_values))
              THEN <<"inconsistent">> ELSE <<>>
    IN  IF \/ a.sigma_low < 0
           \/ a.sigma_up < 0
           \/ check_num_array_argument(lim, 2, FALSE, TRUE)
        THEN [err |-> TRUE, o |-> o0, lim |-> lim, fresh |-> fresh,
              n_instances |-> n_inst, rng |-> state, warns |-> <<>>]
        ELSE IF Len(a.random_values) > 1
        THEN constructed(given_random_values(
                             set_n_random(o0, IntArg(Len(a.random_values)), lim, state),
                             a.random_values),
                         w0 \o w1, lim, fresh, n_inst)
        ELSE constructed(set_n_random(o0, IF a.n_random.kind = "none"
                                          THEN IntArg(DefaultNRandom) ELSE a.n_random,
                                      lim, state),
                         w0 \o w1, lim, fresh, n_inst)

----------------------------------------------------------------------------
(* algebra.py.  An operand is a number, an Unc object (with the list its   *)
(* limits refer to) or something else.  A function returns                 *)
(* [err, vals, rand, store, warns, rng]: vals and rand are result[0] and   *)
(* result[1], store is store_rand_result.                                  *)

NumOp(k) == [kind |-> "num", val |-> k]
UncOp(o, lim) == [kind |-> "unc", o |-> o, lim |-> lim]
StrOp == [kind |-> "str"]

(* A value off the grid: a division that is not exact, a power that is no *)
(* integer or too large                                                   *)
Undefined == inf * inf

Add(x, y) == x + y
Sub(x, y) == x - y
Mul(x, y) == x * y
Div(x, y) ==
    IF y = 0 \/ Abs(x) > MaxAbs * MaxAbs THEN Undefined
    ELSE IF Abs(x) % Abs(y) # 0 THEN Undefined
    ELSE IF (x < 0) = (y < 0) THEN Abs(x) \div Abs(y)
    ELSE -(Abs(x) \div Abs(y))
Power(x, y) ==
    IF y < 0 \/ Abs(x) > MaxAbs \/ (y > 5 /\ Abs(x) > 1) THEN Undefined
    ELSE IF Abs(x) > 1 THEN Pow(x, y)
    ELSE IF y = 0 THEN 1
    ELSE IF x = 0 THEN 0
    ELSE IF x = 1 \/ y % 2 = 0 THEN 1
    ELSE -1

(* x op y for the operator op of Python *)
Apply(op, x, y) ==
    CASE op = "+" -> Add(x, y)
      [] op = "-" -> Sub(x, y)
      [] op = "*" -> Mul(x, y)
      [] op = "/" -> Div(x, y)
      [] op = "**" -> Power(x, y)

(* array op scalar, scalar op array, array op array (over the common length) *)
ArrNum(op, arr, k) == [i \in 1..Len(arr) |-> Apply(op, arr[i], k)]
NumArr(op, k, arr) == [i \in 1..Len(arr) |-> Apply(op, k, arr[i])]
ArrArr(op, a1, a2, n) == [i \in 1..n |-> Apply(op, a1[i], a2[i])]

InGrid(arr) == \A i \in 1..Len(arr) : Abs(arr[i]) <= MaxAbs

Result_swapped(vals, rand, store, warns, state) ==
    [err |-> FALSE, vals |-> <<vals[1], vals[3], vals[2]>>, rand |-> rand,
     store |-> store, warns |-> warns, rng |-> state]
Result(vals, rand, store, warns, state) ==
    [err |-> FALSE, vals |-> vals, rand |-> rand, store |-> store,
     warns |-> warns, rng |-> state]
(* A call that fails and says nothing *)
Failure_silent(state) ==
    [err |-> FALSE, vals |-> <<0, 0, 0>>, rand |-> <<>>, store |-> FALSE,
     warns |-> <<>>, rng |-> state]
Failure(state) ==
    [err |-> TRUE, vals |-> <<0, 0, 0>>, rand |-> <<>>, store |-> FALSE,
     warns |-> <<>>, rng |-> state]

(* [e, store_rand_result] for e the result of evaluate(rand_result) *)
EvalResult(e, rand_result, store, warns, state) ==
    IF e.err THEN Failure(state)
    ELSE Result(e.val, rand_result, store, warns, state)

(* [evaluate(rand_result), store_rand_result] *)
Evaluated(rand_result, store, warns, state) ==
    EvalResult(evaluate(rand_result), rand_result, store, warns, state)

(* check_numeric: TRUE iff it raises ValueError *)
check_numeric(other) == other.kind \notin {"num", "unc"}

(* array_size_min without its warning *)
array_size_min_silent(array_1_length, array_2_length) ==
    [warns |-> <<>>, min |-> Min(array_1_length, array_2_length)]

(* array_size_min: [warns, min] *)
array_size_min(array_1_length, array_2_length) ==
    [warns |-> IF array_1_length # array_2_length THEN <<"mismatch">> ELSE <<>>,
     min |-> Min(array_1_length, array_2_length)]

(* Draws for o that go on from the generator as it is, one draw on *)
randn_unseeded(o, lim, state) ==
    randn_asym_draws(o.mean_value, <<o.sigma_low, o.sigma_up>>, lim, o.n_random,
                     draw(state, 1))

(* randn_asym(o.mean_value, [o.sigma_low, o.sigma_up], limits=o.limits,   *)
(*            random_seed=o.seed, n_random=o.n_random)                    *)
randn(o, lim, state) ==
    randn_asym(o.mean_value, <<o.sigma_low, o.sigma_up>>, lim, o.seed, o.n_random, state)

(* The array an operand contributes: its stored values if use_stored, else *)
(* fresh draws: [err, rand, rng]                                           *)
operand_values(use_stored, o, lim, state) ==
    IF use_stored THEN [err |-> FALSE, rand |-> o.random_values, rng |-> state]
    ELSE randn(o, lim, state)

(* The general case: both operands sampled, truncated to the common size, *)
(* combined and evaluated                                                 *)
combine(op, rs, ro, store, state) ==
    IF rs.err \/ ro.err THEN Failure(state)
    ELSE
    LET c == array_size_min(Len(rs.rand), Len(ro.rand))
    IN  Evaluated(ArrArr(op, rs.rand, ro.rand, c.min), store, c.warns, ro.rng)

(* add(self, other) *)
add(self, slim, other, state) ==
    IF check_numeric(other) THEN Failure(state)
    ELSE IF other.kind = "num"
    THEN Result(<<self.mean_value + other.val, self.sigma_low, self.sigma_up>>,
                ArrNum("+", self.random_values, other.val), self.store, <<>>, state)
    ELSE
    LET o == other.o
        store_rand_result == self.store \/ o.store
    IN  IF self.seed = o.seed
        THEN Result(<<2 * self.mean_value, 2 * self.sigma_low, 2 * self.sigma_up>>,
                    <<0>>, store_rand_result, <<>>, state)
        ELSE IF o.is_exact
        THEN Result(<<self.mean_value + o.mean_value, self.sigma_low, self.sigma_up>>,
                    ArrNum("+", self.random_values, o.mean_value),
                    store_rand_result, <<>>, state)
        ELSE IF self.is_exact
        THEN Result(<<self.mean_value + o.mean_value, o.sigma_low, o.sigma_up>>,
                    NumArr("+", self.mean_value, o.random_values),
                    store_rand_result, <<>>, state)
        ELSE
        LET rs == operand_values(self.store, self, slim, state)
            \* line 62 tests self.store, not other.store
            ro == operand_values(self.store, o, other.lim, rs.rng)
        IN  combine("+", rs, ro, store_rand_result, state)

(* mul(self, other) *)
mul(self, slim, other, state) ==
    IF check_numeric(other) THEN Failure(state)
    ELSE IF other.kind = "num"
    THEN Result(<<self.mean_value * other.val, self.sigma_low * other.val,
                  self.sigma_up * other.val>>,
                ArrNum("*", self.random_values, other.val), self.store, <<>>, state)
    ELSE
    LET o == other.o
        store_rand_result == self.store \/ o.store
    IN  IF o.is_exact
        THEN Result(<<self.mean_value * o.mean_value, self.sigma_low * o.mean_value,
                      self.sigma_up * o.mean_value>>,
                    ArrNum("*", self.random_values, o.mean_value),
                    store_rand_result, <<>>, state)
        ELSE IF self.is_exact
        THEN Result(<<self.mean_value * o.mean_value, o.sigma_low * self.mean_value,
                      o.sigma_up * self.mean_value>>,
                    NumArr("*", self.mean_value, o.random_values),
                    store_rand_result, <<>>, state)
        ELSE
        LET rs == operand_values(self.store, self, slim, state)
            ro == operand_values(o.store, o, other.lim, rs.rng)
        IN  combine("*", rs, ro, store_rand_result, state)

(* power(self, other) *)
power(self, slim, other, state) ==
    IF check_numeric(other) THEN Failure(state)
    ELSE IF other.kind = "num"
    THEN IF self.is_exact
         THEN Result(<<Power(self.mean_value, other.val), 0, 0>>,
                     <<Power(self.mean_value, other.val)>>, self.store, <<>>, state)
         ELSE
         LET rs == operand_values(self.store, self, slim, state)
         IN  IF rs.err THEN Failure(state)
             ELSE Evaluated(ArrNum("**", rs.rand, other.val), self.store, <<>>, rs.rng)
    ELSE
    LET o == other.o
        store_rand_result == self.store \/ o.store
    IN  IF self.is_exact
        THEN IF o.is_exact
             THEN Result(<<Power(self.mean_value, o.mean_value), 0, 0>>,
                         <<Power(self.mean_value, o.mean_value)>>,
                         store_rand_result, <<>>, state)
             ELSE
             LET ro == operand_values(o.store, o, other.lim, state)
             IN  IF ro.err THEN Failure(state)
                 ELSE Evaluated(NumArr("**", self.mean_value, ro.rand),
                                store_rand_result, <<>>, ro.rng)
        ELSE
        LET rs == operand_values(self.store, self, slim, state)
            ro == operand_values(o.store, o, other.lim, rs.rng)
        IN  combine("**", rs, ro, store_rand_result, state)

(* rpower(self, other): other**self *)
rpower(self, slim, other, state) ==
    IF check_numeric(other) THEN Failure(state)
    ELSE
    LET rs == operand_values(self.store, self, slim, state)
    IN  IF rs.err THEN Failure(state)
        ELSE Evaluated(NumArr("**", other.val, rs.rand), self.store, <<>>, rs.rng)

(* sub(self, other, rsub) *)
sub(self, slim, other, rsub, state) ==
    IF check_numeric(other) THEN Failure(state)
    ELSE IF other.kind = "num"
    THEN IF rsub
         THEN Result(<<other.val - self.mean_value, self.sigma_low, self.sigma_up>>,
                     NumArr("-", other.val, self.random_values), self.store, <<>>, state)
         ELSE Result(<<self.mean_value - other.val, self.sigma_low, self.sigma_up>>,
                     ArrNum("-", self.random_values, other.val), self.store, <<>>, state)
    ELSE
    LET o == other.o
        store_rand_result == self.store \/ o.store
    IN  IF self.seed = o.seed
        THEN Result(<<0, 0, 0>>, <<0>>, store_rand_result, <<>>, state)
        ELSE IF o.is_exact
        THEN Result(<<self.mean_value - o.mean_value, self.sigma_low, self.sigma_up>>,
                    ArrNum("-", self.random_values, o.mean_value),
                    store_rand_result, <<>>, state)
        ELSE IF self.is_exact
        THEN Result(<<self.mean_value - o.mean_value, o.sigma_low, o.sigma_up>>,
                    NumArr("-", self.mean_value, o.random_values),
                    store_rand_result, <<>>, state)
        ELSE
        LET rs == operand_values(self.store, self, slim, state)
            ro == operand_values(o.store, o, other.lim, rs.rng)
        IN  combine("-", rs, ro, store_rand_result, state)

(* truediv(self, other) *)
truediv(self, slim, other, state) ==
    IF check_numeric(other) THEN Failure(state)
    ELSE IF other.kind = "num"
    THEN Result(<<Div(self.mean_value, other.val), Div(self.sigma_low, other.val),
                  Div(self.sigma_up, other.val)>>,
                ArrNum("/", self.random_values, other.val), self.store, <<>>, state)
    ELSE
    LET o == other.o
    IN  IF self.seed = o.seed
        THEN Result(<<1, 0, 0>>, <<1>>, self.store, <<>>, state)
        ELSE IF o.is_exact
        \* other.store is not looked at on this path
        THEN Result(<<Div(self.mean_value, o.mean_value), Div(self.sigma_low, o.mean_value),
                      Div(self.sigma_up, o.mean_value)>>,
                    ArrNum("/", self.random_values, o.mean_value), self.store, <<>>, state)
        ELSE
        LET ro == operand_values(o.store, o, other.lim, state)
            store_1 == self.store \/ o.store
        IN  IF ro.err THEN Failure(state)
            ELSE IF self.is_exact
            THEN IF self.mean_value = 0
                 THEN Result(<<0, 0, 0>>, <<0>>, store_1, <<>>, ro.rng)
                 ELSE Evaluated(NumArr("/", self.mean_value, ro.rand), store_1, <<>>, ro.rng)
            ELSE
            \* the dividend is sampled after the divisor
            LET rs == operand_values(self.store, self, slim, ro.rng)
            IN  IF rs.err THEN Failure(state)
                ELSE
                LET c == array_size_min(Len(rs.rand), Len(ro.rand))
                IN  Evaluated(ArrArr("/", rs.rand, ro.rand, c.min), store_1,
                              c.warns, rs.rng)

----------------------------------------------------------------------------
(* functions.py *)

(* numpy.exp on the grid: the number of the grid nearest to e**x *)
nexp(x) ==
    IF x > 3 THEN Undefined
    ELSE IF x < 0 THEN 0
    ELSE <<1, 3, 7, 20>>[x + 1]

(* exp(unc) up to the Unc(...) it returns: store says whether random_values *)
(* is passed to it                                                          *)
exp(unc, state) ==
    IF unc.kind # "unc" THEN Failure(state)
    ELSE IF unc.o.is_exact
    THEN Result(<<nexp(unc.o.mean_value), 0, 0>>, default_random_values, FALSE, <<>>, state)
    ELSE
    LET rand == randn(unc.o, unc.lim, state)
    IN  IF rand.err THEN Failure(state)
        ELSE Evaluated([i \in 1..Len(rand.rand) |-> nexp(rand.rand[i])],
                       unc.o.store, <<>>, rand.rng)

----------------------------------------------------------------------------
(* The state machine: one action per call of the public interface *)

(* The record of the last call.  val is the argument of the call (a number, *)
(* or the arguments of the constructor), other the handle of an Unc         *)
(* operand, res the handle of the object the call returned (0: none), inner *)
(* the call that made self when that was the call before, with a number.    *)
Call(op, self, kind, val, other, res, raised, warns, inner) ==
    [op |-> op, self |-> self, kind |-> kind, val |-> val, other |-> other,
     res |-> res, raised |-> raised, warns |-> warns, inner |-> inner]

Handles == 1..Len(objs)
Lim(o) == lists[o.limits]

(* A handle for a new list object: a slot no object but self refers to *)
FreeSlots(self) ==
    {i \in 1..Len(lists) : \A j \in Handles : j # self => objs[j].limits # i}
NewHandle(self) ==
    IF FreeSlots(self) = {} THEN Len(lists) + 1
    ELSE CHOOSE i \in FreeSlots(self) : \A j \in FreeSlots(self) : i <= j
Put(ls, h, l) == IF h = Len(ls) + 1 THEN Append(ls, l) ELSE [ls EXCEPT ![h] = l]

GridObj(o) ==
    /\ Abs(o.mean_value) <= MaxAbs
    /\ o.sigma_low <= MaxAbs
    /\ o.sigma_up <= MaxAbs
    /\ InGrid(o.random_values)

Init ==
    /\ objs = <<>>
    /\ lists = <<>>
    /\ n_instances = 0
    /\ rng \in 0..(RngMod - 1)
    /\ last = Call("none", 0, "none", 0, 0, 0, FALSE, <<>>, <<>>)
    /\ calls = 0
    /\ threads = [t \in 1..NThreads |-> [pc |-> "start", seeds |-> <<>>, loaded |-> 0]]

(* One more call, in a run of at most MaxCalls *)
Step == calls < MaxCalls /\ calls' = calls + 1

(* x = Unc(...) by the user *)
Construct(a) ==
    /\ Step
    /\ Len(objs) < MaxUser
    /\ n_instances < MaxSeed
    /\ \E c \in {Unc_init(a, lists, NewHandle(0), n_instances, rng)} :
        /\ c.err \/ GridObj(c.o)
        /\ objs' = IF c.err THEN objs ELSE Append(objs, c.o)
        /\ lists' = IF c.err \/ ~c.fresh THEN lists ELSE Put(lists, c.o.limits, c.lim)
        /\ n_instances' = c.n_instances
        /\ rng' = c.rng
        /\ last' = Call("Unc", 0, "args", a, 0, IF c.err THEN 0 ELSE Len(objs) + 1,
                        c.err, c.warns, <<>>)
        /\ UNCHANGED threads

(* The parameters of __init__ that have no default value *)
Required == {"mean_value", "sigma_low", "sigma_up"}

(* x = Unc(...) with only the arguments named in given, a proper subset of *)
(* Required: the call raises TypeError before the body of __init__ runs    *)
ConstructOmitting(given, mean_value, sigma) ==
    /\ Step
    /\ Len(objs) < MaxUser
    /\ ~(Required \subseteq given)
    /\ last' = Call("Unc", 0, "omitted",
                    [given |-> given, mean_value |-> mean_value, sigma |-> sigma],
                    0, 0, TRUE, <<>>, <<>>)
    /\ UNCHANGED <<objs, lists, n_instances, rng, threads>>

(* A setter that touches the object only: r is [err, o, rng, warns] *)
Setter(op, h, val, r) ==
    /\ GridObj(r.o)
    /\ objs' = [objs EXCEPT ![h] = r.o]
    /\ rng' = r.rng
    /\ last' = Call(op, h, "num", val, 0, 0, r.err, r.warns, <<>>)
    /\ UNCHANGED <<lists, n_instances, threads>>

SetMeanValue(h, v) ==
    /\ Step
    /\ \E r \in {Ok(set_mean_value(objs[h], v), rng, <<>>)} :
        Setter("set_mean_value", h, v, r)

SetSigmaLow(h, v) ==
    /\ Step
    /\ \E r \in {set_sigma_low(objs[h], v)} :
        Setter("set_sigma_low", h, v, [err |-> r.err, o |-> r.o, rng |-> rng, warns |-> <<>>])

SetSigmaUp(h, v) ==
    /\ Step
    /\ \E r \in {set_sigma_up(objs[h], v)} :
        Setter("set_sigma_up", h, v, [err |-> r.err, o |-> r.o, rng |-> rng, warns |-> <<>>])

SetNRandom(h, n) ==
    /\ Step
    /\ \E r \in {set_n_random(objs[h], n, Lim(objs[h]), rng)} :
        Setter("set_n_random", h, n, r)

(* The end of set_limits, set_lower_limit and set_upper_limit: the limits of *)
(* self are the list new (held in slot handle), then                         *)
(* "if not self.is_exact: self.sample_random_numbers()"                      *)
UpdateLimits(op, h, val, handle, new, warns) ==
    \E r \in {LET o1 == [objs[h] EXCEPT !.limits = handle]
               IN  IF o1.is_exact THEN Ok(o1, rng, <<>>)
                   ELSE sample_random_numbers(o1, new, rng)} :
        /\ GridObj(r.o)
        /\ objs' = [objs EXCEPT ![h] = r.o]
        /\ lists' = Put(lists, handle, new)
        /\ rng' = r.rng
        /\ last' = Call(op, h, "num", val, 0, 0, r.err, warns \o r.warns, <<>>)
        /\ UNCHANGED <<n_instances, threads>>

(* A setter of the limits that raised in its checks *)
LimitsRejected(op, h, val) ==
    /\ last' = Call(op, h, "num", val, 0, 0, TRUE, <<>>, <<>>)
    /\ UNCHANGED <<objs, lists, n_instances, rng, threads>>

(* set_limits(limits): limits is a list built for the call or an existing one *)
SetLimits(h, arg) ==
    /\ Step
    /\ LET new == IF arg.kind = "new" THEN arg.list ELSE lists[arg.h]
           handle == IF arg.kind = "new" THEN NewHandle(h) ELSE arg.h
           c == check_limit_update(Lim(objs[h]).v, new.v)
       IN  IF check_num_array_argument(new, 2, FALSE, TRUE) \/ c.err
           THEN LimitsRejected("set_limits", h, arg)
           ELSE UpdateLimits("set_limits", h, arg, handle, new, c.warns)

(* set_lower_limit: self.limits[0] = lower_limit, in place *)
SetLowerLimit(h, lower_limit) ==
    /\ Step
    /\ LET old == Lim(objs[h])
           new == List(<<lower_limit, old.v[2]>>)
           c == check_limit_update(old.v, new.v)
       IN  IF check_num_array_argument(new, 2, FALSE, TRUE) \/ c.err
           THEN LimitsRejected("set_lower_limit", h, lower_limit)
           ELSE UpdateLimits("set_lower_limit", h, lower_limit, objs[h].limits, new, c.warns)

(* set_upper_limit: self.limits[1] = upper_limit, in place *)
SetUpperLimit(h, upper_limit) ==
    /\ Step
    /\ LET old == Lim(objs[h])
           new == List(<<old.v[1], upper_limit>>)
           c == check_limit_update(old.v, new.v)
       IN  IF check_num_array_argument(new, 2, FALSE, TRUE) \/ c.err
           THEN LimitsRejected("set_upper_limit", h, upper_limit)
           ELSE UpdateLimits("set_upper_limit", h, upper_limit, objs[h].limits, new, c.warns)

(* The operand of a call, as the record of the call names it *)
OperandKind(other) == other.kind
OperandVal(other) == IF other.kind = "num" THEN other.val ELSE 0

(* The call before made self from a number: what the record keeps of it *)
Inner(h, other) ==
    IF /\ other.kind = "num"
       /\ h # 0
       /\ last.res = h
       /\ last.kind = "num"
       /\ ~last.raised
    THEN <<[op |-> last.op, self |-> last.self, val |-> last.val]>>
    ELSE <<>>

(* The end of a call that returns a new object: r is what the call computed *)
(* ([err, vals, rand, store, warns, rng]) and a the arguments of the Unc(...) *)
(* it returns, which is not called if r.err                                   *)
Returned(op, h, other, oh, r, a, n_inst) ==
    \E c \in {Unc_init(a, lists, NewHandle(0), n_inst, r.rng)} :
    LET failed == r.err \/ c.err
    IN  /\ Len(objs) < MaxObjs
        /\ n_inst < MaxSeed
        /\ r.err \/ (InGrid(r.vals) /\ InGrid(r.rand))
        /\ failed \/ GridObj(c.o)
        /\ objs' = IF failed THEN objs ELSE Append(objs, c.o)
        /\ lists' = IF failed THEN lists ELSE Put(lists, c.o.limits, c.lim)
        /\ n_instances' = IF r.err THEN n_inst ELSE c.n_instances
        /\ rng' = IF r.err THEN r.rng ELSE c.rng
        /\ last' = Call(op, h, OperandKind(other), OperandVal(other), oh,
                        IF failed THEN 0 ELSE Len(objs) + 1, failed,
                        IF r.err THEN r.warns ELSE r.warns \o c.warns,
                        Inner(h, other))
        /\ UNCHANGED threads

(* The end of every operator method: r is the result of the function of    *)
(* algebra.py ([err, vals, rand, store, warns, rng]);                      *)
(* return Unc(r[0][0], r[0][1], r[0][2],                                   *)
(*            random_values=r[1] if store_rand_result else array([0.]),    *)
(*            store=store_rand_result, n_random=self.n_random)             *)
Return(op, h, other, oh, r, n_random, n_inst) ==
    Returned(op, h, other, oh, r,
             CtorArgs(r.vals[1], r.vals[2], r.vals[3], LimNone, r.store,
                      IF r.store THEN r.rand ELSE default_random_values,
                      IntArg(n_random)),
             n_inst)

Unc_add(h, other, oh) ==
    /\ Step /\ Len(objs) < MaxObjs
    /\ \E r \in {add(objs[h], Lim(objs[h]), other, rng)} :
        Return("add", h, other, oh, r, objs[h].n_random, n_instances)

Unc_radd(h, other) ==
    /\ Step /\ Len(objs) < MaxObjs
    /\ \E r \in {add(objs[h], Lim(objs[h]), other, rng)} :
        Return("radd", h, other, 0, r, objs[h].n_random, n_instances)

Unc_sub(h, other, oh) ==
    /\ Step /\ Len(objs) < MaxObjs
    /\ \E r \in {sub(objs[h], Lim(objs[h]), other, FALSE, rng)} :
        Return("sub", h, other, oh, r, objs[h].n_random, n_instances)

Unc_rsub(h, other) ==
    /\ Step /\ Len(objs) < MaxObjs
    /\ \E r \in {sub(objs[h], Lim(objs[h]), other, TRUE, rng)} :
        Return("rsub", h, other, 0, r, objs[h].n_random, n_instances)

Unc_mul(h, other, oh) ==
    /\ Step /\ Len(objs) < MaxObjs
    /\ \E r \in {mul(objs[h], Lim(objs[h]), other, rng)} :
        Return("mul", h, other, oh, r, objs[h].n_random, n_instances)

Unc_rmul(h, other) ==
    /\ Step /\ Len(objs) < MaxObjs
    /\ \E r \in {mul(objs[h], Lim(objs[h]), other, rng)} :
        Return("rmul", h, other, 0, r, objs[h].n_random, n_instances)

Unc_truediv(h, other, oh) ==
    /\ Step /\ Len(objs) < MaxObjs
    /\ \E r \in {truediv(objs[h], Lim(objs[h]), other, rng)} :
        Return("truediv", h, other, oh, r, objs[h].n_random, n_instances)

Unc_pow(h, other, oh) ==
    /\ Step /\ Len(objs) < MaxObjs
    /\ \E r \in {power(objs[h], Lim(objs[h]), other, rng)} :
        Return("pow", h, other, oh, r, objs[h].n_random, n_instances)

Unc_rpow(h, other) ==
    /\ Step /\ Len(objs) < MaxObjs
    /\ \E r \in {rpower(objs[h], Lim(objs[h]), other, rng)} :
        Return("rpow", h, other, 0, r, objs[h].n_random, n_instances)

(* __rtruediv__: other/self, through Unc(other, 0., 0., n_random=self.n_random, *)
(* store=self.store), an object of its own                                      *)
Unc_rtruediv(h, other) ==
    /\ Step /\ Len(objs) < MaxObjs
    /\ IF check_numeric(other)
       THEN \E r \in {Failure(rng)} :
                Return("rtruediv", h, other, 0, r, objs[h].n_random, n_instances)
       ELSE
         \E t \in {Unc_init(CtorArgs(other.val, 0, 0, LimNone, objs[h].store,
                                     default_random_values, IntArg(objs[h].n_random)),
                            lists, NewHandle(0), n_instances, rng)} :
         \E r \in {IF t.err THEN Failure(t.rng)
                    ELSE truediv(t.o, t.lim, UncOp(objs[h], Lim(objs[h])), t.rng)} :
             Return("rtruediv", h, other, 0, r, objs[h].n_random, t.n_instances)

(* No operand besides self *)
NoOperand == [kind |-> "none"]

(* -self.random_values *)
Negated(arr) == [i \in 1..Len(arr) |-> -arr[i]]

(* __neg__: Unc(-self.mean_value, self.sigma_low, self.sigma_up,              *)
(*              random_values=-self.random_values if self.store else array([0.]), *)
(*              store=self.store, n_random=self.n_random)                     *)
Unc_neg(h) ==
    /\ Step /\ Len(objs) < MaxObjs
    /\ \E r \in {Result(<<-objs[h].mean_value, objs[h].sigma_low, objs[h].sigma_up>>,
                         Negated(objs[h].random_values), objs[h].store, <<>>, rng)} :
        Return("neg", h, NoOperand, 0, r, objs[h].n_random, n_instances)

(* exp(unc) of functions.py, unc the operand and g its handle if it is an Unc: *)
(* Unc(exp_result[0][0], exp_result[0][1], exp_result[0][2]), with             *)
(* random_values=exp_result[1] if unc.store                                    *)
Unc_exp(unc, g) ==
    /\ Step /\ Len(objs) < MaxObjs
    /\ \E r \in {exp(unc, rng)} :
        Returned("exp", g, unc, 0, r,
                 CtorArgs(r.vals[1], r.vals[2], r.vals[3], LimNone, FALSE,
                          IF r.store THEN r.rand ELSE default_random_values, None),
                 n_instances)

----------------------------------------------------------------------------
(* The inputs of the calls *)

Scalars == {-1, 0, 1, 2}
NumOperands == {NumOp(k) : k \in Scalars} \cup {StrOp}
LimitLists ==
    {List(<<0, 4>>), List(<<5, 6>>), List(<<4, 0>>), List(<<0>>), BadList(<<0, 4>>)}
LimitRefs == {LimRef(h) : h \in {objs[i].limits : i \in Handles}}

(* The constructor calls of the specification of the operators *)
SigmaArgs == {-1, 0, 2}
CtorInputs ==
    {CtorArgs(2, sl, su, LimNone, FALSE, default_random_values, None) :
        sl \in SigmaArgs, su \in SigmaArgs}
    \cup
    {CtorArgs(2, 2, 2, LimNone, TRUE, rv, None) :
        rv \in {default_random_values, <<1, 2, 4>>, <<2, 4>>}}
    \cup
    {CtorArgs(2, 2, 2, LimNone, FALSE, default_random_values, IntArg(1))}

SetSigmaArgs == {-1, 0}

(* The calls of the operators *)
Operators ==
    \/ \E h \in Handles, g \in Handles : Unc_add(h, UncOp(objs[g], Lim(objs[g])), g)
    \/ \E h \in Handles, g \in Handles : Unc_sub(h, UncOp(objs[g], Lim(objs[g])), g)
    \/ \E h \in Handles, g \in Handles : Unc_mul(h, UncOp(objs[g], Lim(objs[g])), g)
    \/ \E h \in Handles, g \in Handles : Unc_truediv(h, UncOp(objs[g], Lim(objs[g])), g)
    \/ \E h \in Handles, g \in Handles : Unc_pow(h, UncOp(objs[g], Lim(objs[g])), g)
    \/ \E h \in Handles, k \in NumOperands : Unc_add(h, k, 0)
    \/ \E h \in Handles, k \in NumOperands : Unc_radd(h, k)
    \/ \E h \in Handles, k \in NumOperands : Unc_sub(h, k, 0)
    \/ \E h \in Handles, k \in NumOperands : Unc_rsub(h, k)
    \/ \E h \in Handles, k \in NumOperands : Unc_mul(h, k, 0)
    \/ \E h \in Handles, k \in NumOperands : Unc_rmul(h, k)
    \/ \E h \in Handles, k \in NumOperands : Unc_truediv(h, k, 0)
    \/ \E h \in Handles, k \in NumOperands : Unc_rtruediv(h, k)
    \/ \E h \in Handles, k \in NumOperands : Unc_pow(h, k, 0)
    \/ \E h \in Handles, k \in NumOperands : Unc_rpow(h, k)
    \/ \E h \in Handles : Unc_neg(h)
    \/ \E g \in Handles : Unc_exp(UncOp(objs[g], Lim(objs[g])), g)
    \/ \E k \in NumOperands : Unc_exp(k, 0)

Next ==
    \/ \E a \in CtorInputs : Construct(a)
    \/ \E h \in Handles, v \in SetSigmaArgs : SetSigmaLow(h, v)
    \/ \E h \in Handles, v \in SetSigmaArgs : SetSigmaUp(h, v)
    \/ Operators

(* Every draw of an operator follows numpy.random.seed: the state the *)
(* generator starts in plays no part                                  *)
InitSeeded == Init /\ rng = 0

Spec == InitSeeded /\ [][Next]_vars

(* The constructor calls and the setter calls of the specification of the *)
(* life of an object                                                      *)
LifeCtorInputs ==
    {CtorArgs(2, 2, 2, lim, st, rv, None) :
        st \in BOOLEAN,
        lim \in {LimNone, LimNew(List(<<0, 4>>)), LimNew(List(<<5, 6>>)),
                 LimNew(List(<<4, 0>>)), LimNew(List(<<4, 4>>))} \cup LimitRefs,
        rv \in {default_random_values, <<1, 2, 4>>}}

OmittingInputs == (SUBSET Required) \ {Required}
SetMeanArgs == {0}
SetNRandomArgs == {IntArg(1), IntArg(2), IntArg(4), FloatArg(2)}
SetLimitsArgs == {LimNew(l) : l \in LimitLists \cup {List(<<1, 3>>)}}
SetLimitArgs == {1, 3, 6}

NextLife ==
    \/ \E a \in LifeCtorInputs : Construct(a)
    \/ \E given \in OmittingInputs : ConstructOmitting(given, 2, 2)
    \/ \E h \in Handles, v \in SetMeanArgs : SetMeanValue(h, v)
    \/ \E h \in Handles, v \in SetSigmaArgs : SetSigmaLow(h, v)
    \/ \E h \in Handles, v \in SetSigmaArgs : SetSigmaUp(h, v)
    \/ \E h \in Handles, n \in SetNRandomArgs : SetNRandom(h, n)
    \/ \E h \in Handles, arg \in SetLimitsArgs \cup LimitRefs : SetLimits(h, arg)
    \/ \E h \in Handles, v \in SetLimitArgs : SetLowerLimit(h, v)
    \/ \E h \in Handles, v \in SetLimitArgs : SetUpperLimit(h, v)

SpecLife == Init /\ [][NextLife]_vars

(* A call of randn_asym of mc_statistics.py by the user; the record of the *)
(* call keeps the arguments and the array returned                         *)
Randn(mean_value, sigma, limits, random_seed, n_random) ==
    /\ Step
    /\ \E r \in {randn_asym_any(mean_value, sigma, limits, random_seed, n_random, rng)} :
        /\ rng' = r.rng
        /\ last' = Call("randn_asym", 0, "args",
                        [mean_value |-> mean_value, sigma |-> sigma, limits |-> limits,
                         random_seed |-> random_seed, n_random |-> n_random,
                         returned |-> r.rand],
                        0, 0, r.err, <<>>, <<>>)
        /\ UNCHANGED <<objs, lists, n_instances, threads>>

(* The calls of the specification of the sampler *)
SamplerMeans == {0, 2}
SamplerSigmas == {<<2, 2>>, <<1, 2>>, <<-1, 2>>}
SamplerLimits == {List(<<-inf, inf>>), List(<<0, 4>>)}
SamplerSeeds == {None, IntArg(0), IntArg(1), IntArg(2), IntArg(-1), FloatArg(1)}
SamplerCounts == {2, 3}

NextSampler ==
    \E mean_value \in SamplerMeans, sigma \in SamplerSigmas, limits \in SamplerLimits,
       random_seed \in SamplerSeeds, n_random \in SamplerCounts :
        Randn(mean_value, sigma, limits, random_seed, n_random)

SpecSampler == Init /\ [][NextSampler]_vars

(* The calls of the specification of the resampling: objects built from   *)
(* samples, a few or many (two low values and the rest far above), and    *)
(* the setters that sample anew                                           *)
ManyValues == [i \in 1..ManyLen |-> IF i <= 2 THEN i ELSE 30 + (i % 2)]
ResampleCtorInputs ==
    {CtorArgs(2, 2, 2, LimNone, st, rv, None) :
        st \in BOOLEAN, rv \in {<<1, 2, 4>>, ManyValues}}
ResampleLimitsArgs ==
    {LimNew(List(<<0, 4>>)), LimNew(List(<<3, 6>>)), LimNew(List(<<5, 6>>))}
ResampleLimitArgs == {1, 3}
ResampleNRandomArgs == {IntArg(2), IntArg(4)}

NextResample ==
    \/ \E a \in ResampleCtorInputs : Construct(a)
    \/ \E h \in Handles, arg \in ResampleLimitsArgs : SetLimits(h, arg)
    \/ \E h \in Handles, v \in ResampleLimitArgs : SetLowerLimit(h, v)
    \/ \E h \in Handles, v \in ResampleLimitArgs : SetUpperLimit(h, v)
    \/ \E h \in Handles, n \in ResampleNRandomArgs : SetNRandom(h, n)

SpecResample == InitSeeded /\ [][NextResample]_vars

(* Unc.__init__ run by several threads, and of it the two statements that *)
(* touch the class attribute shared by all of them:                       *)
(*     self.seed = Unc.n_instances                                        *)
(*     Unc.n_instances += 1                                               *)
(* No lock is held; the second statement loads the attribute and stores   *)
(* the sum in two steps, and another thread may run between any two steps.*)
(* A thread keeps the seeds of the objects it made.                       *)

(* self.seed = Unc.n_instances *)
ThreadSeed(t) ==
    /\ threads[t].pc = "start"
    /\ Len(threads[t].seeds) < MaxThreadObjs
    /\ threads' = [threads EXCEPT ![t].pc = "load",
                                  ![t].seeds = Append(@, n_instances)]
    /\ UNCHANGED <<objs, lists, n_instances, rng, last, calls>>

(* Unc.n_instances += 1: the load of the attribute *)
ThreadLoad(t) ==
    /\ threads[t].pc = "load"
    /\ threads' = [threads EXCEPT ![t].pc = "store", ![t].loaded = n_instances]
    /\ UNCHANGED <<objs, lists, n_instances, rng, last, calls>>

(* Unc.n_instances += 1: the store of the sum; the rest of __init__ touches *)
(* nothing that is shared                                                   *)
ThreadStore(t) ==
    /\ threads[t].pc = "store"
    /\ n_instances' = increment(threads[t].loaded)
    /\ threads' = [threads EXCEPT ![t].pc = "start", ![t].loaded = 0]
    /\ UNCHANGED <<objs, lists, rng, last, calls>>

NextThreads ==
    \/ \E t \in 1..NThreads : ThreadSeed(t)
    \/ \E t \in 1..NThreads : ThreadLoad(t)
    \/ \E t \in 1..NThreads : ThreadStore(t)

SpecThreads == InitSeeded /\ [][NextThreads]_vars

(* A call of evaluate of evaluation.py by the user; the record of the call *)
(* keeps the arguments, the exception and eval_result[0]                   *)
CallEvaluate(rand_result, force_inside_shortest_coverage) ==
    /\ calls < MaxEvalCalls /\ calls' = calls + 1
    /\ \E e \in {evaluate_any(rand_result, force_inside_shortest_coverage)} :
        last' = Call("evaluate", 0, "args",
                     [rand_result |-> rand_result,
                      force_inside_shortest_coverage |-> force_inside_shortest_coverage,
                      error |-> e.error, returned |-> e.val],
                     0, 0, e.err, <<>>, <<>>)
    /\ UNCHANGED <<objs, lists, n_instances, rng, threads>>

(* A call of shortest_coverage(cdf(rand)) by the user *)
CallShortestCoverage(rand) ==
    /\ calls < MaxEvalCalls /\ calls' = calls + 1
    /\ last' = Call("shortest_coverage", 0, "args",
                    [rand |-> rand, returned |-> shortest_coverage(cdf(rand))],
                    0, 0, FALSE, <<>>, <<>>)
    /\ UNCHANGED <<objs, lists, n_instances, rng, threads>>

(* The samples of the specification of the evaluation: every sample of two *)
(* to MaxSample values up to MaxValue, and one whose most frequent value   *)
(* lies apart from the bulk                                                *)
Samples ==
    UNION {[1..n -> 0..MaxValue] : n \in 2..MaxSample}
    \cup {<<1, 2, 3, 4, 5, 10, 10>>}

NextEvaluation ==
    \/ \E rand \in Samples, force \in BOOLEAN : CallEvaluate(rand, force)
    \/ \E rand \in Samples : CallShortestCoverage(rand)

SpecEvaluation == InitSeeded /\ [][NextEvaluation]_vars

----------------------------------------------------------------------------
(* The properties *)

(* The objects of the last call and what the properties read of them *)
Self == objs[last.self]
Other == objs[last.other]
Res == objs[last.res]
Vals(o) == <<o.mean_value, o.sigma_low, o.sigma_up>>
OfNumber == last.kind = "num" /\ last.self # 0
OfUnc == last.kind = "unc" /\ last.other # 0
BinaryOps == {"add", "sub", "mul", "truediv", "pow"}

(* a op b, for the operator the record of the call names *)
Binary(op, x, y) ==
    CASE op = "add" -> Add(x, y)
      [] op = "sub" -> Sub(x, y)
      [] op = "mul" -> Mul(x, y)
      [] op = "truediv" -> Div(x, y)
      [] op = "pow" -> Power(x, y)

(* The operators C8 names, applied to the value x of self and the number k *)
ScalarOps == {"add", "radd", "sub", "rsub", "rtruediv", "pow", "rpow"}
Scalar(op, x, k) ==
    CASE op \in {"add", "radd"} -> Add(x, k)
      [] op = "sub" -> Sub(x, k)
      [] op = "rsub" -> Sub(k, x)
      [] op = "rtruediv" -> Div(k, x)
      [] op = "pow" -> Power(x, k)
      [] op = "rpow" -> Power(k, x)

(* C1: after the constructor and any calls of the setters, failing calls  *)
(* included, is_exact is true iff sigma_low = 0 and sigma_up = 0.         *)
C1_IsExact ==
    \A h \in Handles :
        objs[h].is_exact <=> (objs[h].sigma_low = 0 /\ objs[h].sigma_up = 0)

C1_Witness ==
    /\ last.op = "set_sigma_up"
    /\ ~last.raised
    /\ Self.is_exact
    /\ Len(Self.random_values) > 1

C3_SeedsIncrease ==
    /\ \A i \in Handles, j \in Handles : i < j => objs[i].seed < objs[j].seed
    /\ \A h \in Handles : objs[h].seed < n_instances

C3_Witness ==
    /\ last.res = Len(objs)
    /\ Len(objs) > 1
    /\ objs[Len(objs) - 1].seed + 1 < Res.seed

(* C4: for a non-exact a, retaining or not, a + a is exactly              *)
(* (2 mean, 2 sigma_low, 2 sigma_up), a - a exactly (0, 0, 0) and a / a   *)
(* exactly (1, 0, 0).                                                     *)
C4_SelfCorrelation ==
    (/\ OfUnc
     /\ last.op \in {"add", "sub", "truediv"}
     /\ last.other = last.self
     /\ ~Self.is_exact)
    => /\ ~last.raised
       /\ Vals(Res) = CASE last.op = "add" ->
                               <<2 * Self.mean_value, 2 * Self.sigma_low, 2 * Self.sigma_up>>
                        [] last.op = "sub" -> <<0, 0, 0>>
                        [] last.op = "truediv" -> <<1, 0, 0>>

(* C5: the result of +, -, *, / or ** of two objects retains its samples  *)
(* if either operand does.                                                *)
C5_StorePropagates ==
    (/\ OfUnc
     /\ last.op \in BinaryOps
     /\ ~last.raised
     /\ Self.store \/ Other.store)
    => Res.store

(* C6: every retaining object holds n_random samples, also after a call   *)
(* that raised.                                                           *)
C6_SampleCount ==
    \A h \in Handles :
        objs[h].store => Len(objs[h].random_values) = objs[h].n_random

(* C7: for two distinct retaining non-exact objects the samples of the     *)
(* result are those of the operands combined one by one over the shorter  *)
(* length, with one warning of the mismatch iff the lengths differ (the   *)
(* constructor's warning of an n_random that disagrees is another         *)
(* warning); the call raises only if these samples cannot be evaluated.   *)
C7_Truncation ==
    (/\ OfUnc
     /\ last.op \in BinaryOps
     /\ last.other # last.self
     /\ Self.store /\ Other.store
     /\ ~Self.is_exact /\ ~Other.is_exact)
    => LET La == Len(Self.random_values)
           Lb == Len(Other.random_values)
           combined == [i \in 1..Min(La, Lb) |->
                           Binary(last.op, Self.random_values[i], Other.random_values[i])]
       IN  IF last.raised THEN evaluate(combined).err
           ELSE /\ Res.store
                /\ Res.random_values = combined
                /\ Count(last.warns, "mismatch") = IF La # Lb THEN 1 ELSE 0

C7_Witness ==
    /\ OfUnc
    /\ last.op \in BinaryOps
    /\ last.other # last.self
    /\ Self.store /\ Other.store
    /\ ~Self.is_exact /\ ~Other.is_exact
    /\ ~last.raised
    /\ Len(Self.random_values) > Len(Other.random_values)
    /\ Len(Res.random_values) = Len(Other.random_values)

(* C8: for a retaining a and a number k each of k+a, a+k, k-a, a-k, k/a,  *)
(* a**k and k**a returns a retaining object with the samples of a taken   *)
(* through the operator one by one, and so does a second such call on the *)
(* result; for an a that does not retain, the result has one sample.      *)
(* (Stated for samples whose images are numbers of the grid.)             *)
C8_ScalarSamples ==
    (/\ OfNumber
     /\ last.op \in ScalarOps
     /\ InGrid([i \in 1..Len(Self.random_values) |->
                   Scalar(last.op, Self.random_values[i], last.val)]))
    => IF Self.store
       THEN /\ ~last.raised
            /\ Res.store
            /\ Res.random_values =
                   [i \in 1..Len(Self.random_values) |->
                       Scalar(last.op, Self.random_values[i], last.val)]
            /\ (/\ last.inner # <<>>
                /\ last.inner[1].op \in ScalarOps
                /\ objs[last.inner[1].self].store)
               => Res.random_values =
                      [i \in 1..Len(objs[last.inner[1].self].random_values) |->
                          Scalar(last.op,
                                 Scalar(last.inner[1].op,
                                        objs[last.inner[1].self].random_values[i],
                                        last.inner[1].val),
                                 last.val)]
       ELSE ~last.raised => Len(Res.random_values) = 1

(* C9: for an a that does not retain and a number k, a+k and k+a are      *)
(* (mean+k, sigma_low, sigma_up), a-k is (mean-k, sigma_low, sigma_up),   *)
(* k-a is (k-mean, sigma_low, sigma_up), a*k, k*a and a/k for k > 0 are   *)
(* the three values times or by k; a+0, a*1 and a/1 have the values of a. *)
C9_ClosedForm ==
    (/\ OfNumber
     /\ ~Self.store
     /\ \/ last.op \in {"add", "radd", "sub", "rsub"}
        \/ last.op \in {"mul", "rmul", "truediv"} /\ last.val > 0)
    => /\ ~last.raised
       /\ Vals(Res) =
              CASE last.op \in {"add", "radd"} ->
                       <<Self.mean_value + last.val, Self.sigma_low, Self.sigma_up>>
                [] last.op = "sub" ->
                       <<Self.mean_value - last.val, Self.sigma_low, Self.sigma_up>>
                [] last.op = "rsub" ->
                       <<last.val - Self.mean_value, Self.sigma_low, Self.sigma_up>>
                [] last.op \in {"mul", "rmul"} ->
                       <<last.val * Self.mean_value, last.val * Self.sigma_low,
                         last.val * Self.sigma_up>>
                [] last.op = "truediv" ->
                       <<Div(Self.mean_value, last.val), Div(Self.sigma_low, last.val),
                         Div(Self.sigma_up, last.val)>>
       /\ (\/ last.op \in {"add", "radd"} /\ last.val = 0
           \/ last.op \in {"mul", "rmul", "truediv"} /\ last.val = 1)
          => Vals(Res) = Vals(Self)

C9_Witness ==
    /\ OfNumber
    /\ last.op = "rsub"
    /\ ~Self.store
    /\ Self.sigma_low # Self.sigma_up
    /\ last.res # 0
    /\ Res.mean_value = last.val - Self.mean_value

(* C10: a non-exact a times a negative number k is the object             *)
(* (k mean, |k| sigma_up, |k| sigma_low).                                 *)
C10_NegativeFactor ==
    (/\ OfNumber
     /\ last.op \in {"mul", "rmul"}
     /\ last.val < 0
     /\ ~Self.is_exact)
    => /\ ~last.raised
       /\ Vals(Res) = <<last.val * Self.mean_value, (-last.val) * Self.sigma_up,
                        (-last.val) * Self.sigma_low>>

(* C11: -a has the mean -a.mean and the sigmas of a swapped; when a        *)
(* retains, the result retains the samples of a negated one by one.       *)
C11_Negation ==
    last.op = "neg"
    => /\ ~last.raised
       /\ Vals(Res) = <<-Self.mean_value, Self.sigma_up, Self.sigma_low>>
       /\ Self.store => (Res.store /\ Res.random_values = Negated(Self.random_values))

(* C13: +, -, *, / (either way round) and ** with an operand that is       *)
(* neither a number nor an Unc, and exp of anything that is no Unc, raise; *)
(* no object is made and the objects that exist stay as they are.         *)
C13_InvalidOperand ==
    [][(\/ last'.kind = "str"
        \/ last'.op = "exp" /\ last'.kind # "unc")
       => /\ last'.raised
          /\ last'.res = 0
          /\ objs' = objs
          /\ lists' = lists]_vars

C13_Witness ==
    /\ last.op = "rtruediv"
    /\ last.kind = "str"
    /\ last.raised
    /\ Self.store
    /\ Len(objs) = 2

(* C12: for an object a and an exact object b that is not a, a+b, b+a, a-b *)
(* and b-a have the sigmas of a and the sum or difference of the means for *)
(* mean; a*b and b*a have the three values of a times b.mean; a/b has the  *)
(* three values of a divided by b.mean.                                    *)
C12_ExactOperand ==
    (/\ OfUnc
     /\ last.other # last.self
     /\ last.op \in {"add", "sub", "mul", "truediv"})
    => /\ Other.is_exact
          => /\ ~last.raised
             /\ Vals(Res) =
                    CASE last.op \in {"add", "sub"} ->
                             <<Binary(last.op, Self.mean_value, Other.mean_value),
                               Self.sigma_low, Self.sigma_up>>
                      [] last.op \in {"mul", "truediv"} ->
                             <<Binary(last.op, Self.mean_value, Other.mean_value),
                               Binary(last.op, Self.sigma_low, Other.mean_value),
                               Binary(last.op, Self.sigma_up, Other.mean_value)>>
       /\ (Self.is_exact /\ last.op # "truediv")
          => /\ ~last.raised
             /\ Vals(Res) =
                    CASE last.op \in {"add", "sub"} ->
                             <<Binary(last.op, Self.mean_value, Other.mean_value),
                               Other.sigma_low, Other.sigma_up>>
                      [] last.op = "mul" ->
                             <<Self.mean_value * Other.mean_value,
                               Other.sigma_low * Self.mean_value,
                               Other.sigma_up * Self.mean_value>>

(* C14: limits that are not two numbers, or not increasing, are rejected   *)
(* by the constructor and by set_limits, set_lower_limit and               *)
(* set_upper_limit; the limits of every object are two numbers with the    *)
(* lower below the upper.                                                  *)
C14_LimitsIncrease ==
    LET malformed(l) == Len(l.v) # 2 \/ ~l.num \/ ~(l.v[1] < l.v[2])
    IN  /\ \A h \in Handles : ~malformed(Lim(objs[h]))
        /\ (/\ last.op = "Unc"
            /\ last.kind = "args"
            /\ last.val.limits.kind = "new"
            /\ malformed(last.val.limits.list))
           => last.raised
        /\ (/\ last.op = "set_limits"
            /\ last.val.kind = "new"
            /\ malformed(last.val.list))
           => last.raised

(* What a caller sees of the objects: their fields, with the limits read *)
(* through the list they refer to                                        *)
Seen(os, ls) == [h \in 1..Len(os) |-> [os[h] EXCEPT !.limits = ls[os[h].limits].v]]
LimitSetters == {"set_limits", "set_lower_limit", "set_upper_limit"}

C16_NoPartialUpdate ==
    [][(/\ last'.op \in LimitSetters \cup {"set_sigma_low", "set_sigma_up", "set_n_random"}
        /\ last'.raised)
       => Seen(objs', lists') = Seen(objs, lists)]_vars

(* What C17 says of a call set_n_random(n) on the object o that leaves o2  *)
(* behind, but for the case of a retaining o with more than one and fewer  *)
(* than n samples, which is left to Larger                                 *)
SetNRandomContract(o, o2, n, Larger) ==
    IF n.kind # "int" \/ n.val < 2 THEN last'.raised
    ELSE IF ~o.store
    THEN /\ ~last'.raised
         /\ o2 = [o EXCEPT !.n_random = n.val]
    ELSE IF n.val <= Len(o.random_values)
    THEN /\ ~last'.raised
         /\ o2 = [o EXCEPT !.n_random = n.val,
                           !.random_values = SubSeq(o.random_values, 1, n.val)]
         /\ last'.warns = <<>>
         /\ rng' = rng
    ELSE Len(o.random_values) > 1
         => /\ Count(last'.warns, "n_random_larger") = 1
            /\ Larger

(* C17 as it was stated: set_n_random(n) raises unless n is an int above 1; *)
(* on a retaining object with L samples, n <= L leaves the first n samples  *)
(* with no new draws and no warning, n > L > 1 warns and leaves n new       *)
(* samples; on an object that does not retain only n_random changes.        *)
C17_Stated ==
    [][last'.op = "set_n_random"
       => SetNRandomContract(objs[last'.self], objs'[last'.self], last'.val,
                             /\ ~last'.raised
                             /\ Len(objs'[last'.self].random_values) = last'.val.val)]_vars

(* C17, amended: as stated, but for n > L > 1 the call, after its warning, *)
(* either leaves n new samples or raises, and it raises only when fewer    *)
(* than two of the L samples lie inside the limits.                        *)
C17_SetNRandom ==
    [][last'.op = "set_n_random"
       => SetNRandomContract(objs[last'.self], objs'[last'.self], last'.val,
                             IF last'.raised
                             THEN Len(SelectIn(objs[last'.self].random_values,
                                               Lim(objs[last'.self]).v[1],
                                               Lim(objs[last'.self]).v[2])) < 2
                             ELSE Len(objs'[last'.self].random_values) = last'.val.val)]_vars

C17_Witness ==
    /\ last.op = "set_n_random"
    /\ ~last.raised
    /\ Count(last.warns, "n_random_larger") = 1
    /\ Self.store
    /\ Len(Self.random_values) = 4

(* C18: Unc() is the exact object (1, 0, 0); Unc(mean) has both sigmas 0;  *)
(* with one of the two sigmas given, both sigmas have its value (and the   *)
(* mean is 1 if it is not given).                                          *)
C18_Defaults ==
    (last.op = "Unc" /\ last.kind = "omitted" /\ last.val.given # {"sigma_low", "sigma_up"})
    => LET given == last.val.given
           sigma == IF given \cap {"sigma_low", "sigma_up"} = {} THEN 0 ELSE last.val.sigma
       IN  /\ ~last.raised
           /\ Vals(Res) = <<IF "mean_value" \in given THEN last.val.mean_value ELSE 1,
                            sigma, sigma>>
           /\ Res.is_exact = (sigma = 0)

(* C19: a call of randn_asym with an int seed that is not negative returns *)
(* the array that the same seed, mean, sigmas, limits and count return     *)
(* from every state earlier calls can have left the generator in; a seed   *)
(* that is given and is no int, or is negative, raises.                    *)
C19_SeedDeterminism ==
    last.op = "randn_asym"
    => LET a == last.val
       IN  /\ (a.random_seed.kind = "int" /\ a.random_seed.val >= 0 /\ ~last.raised)
              => \A state \in 0..(RngMod - 1) :
                     randn_asym_any(a.mean_value, a.sigma, a.limits, a.random_seed,
                                    a.n_random, state).rand = a.returned
           /\ (\/ a.random_seed.kind = "float"
               \/ a.random_seed.kind = "int" /\ a.random_seed.val < 0)
              => last.raised

C19_Witness ==
    /\ last.op = "randn_asym"
    /\ last.val.random_seed = IntArg(1)
    /\ ~last.raised
    /\ Cardinality(Range(last.val.returned)) > 1
    /\ calls > 1

(* C20: for a non-exact a, a*a has the mean and the sigmas that a**2 has   *)
(* (computed next, in the state a*a leaves behind), and fails only if a**2 *)
(* fails.                                                                  *)
C20_SquareIsProduct ==
    (/\ OfUnc
     /\ last.op = "mul"
     /\ last.other = last.self
     /\ ~Self.is_exact)
    => LET p == power(Self, Lim(Self), NumOp(2), rng)
           c == Unc_init(CtorArgs(p.vals[1], p.vals[2], p.vals[3], LimNone, p.store,
                                  IF p.store THEN p.rand ELSE default_random_values,
                                  IntArg(Self.n_random)),
                         lists, NewHandle(0), n_instances, p.rng)
       IN  IF last.raised THEN p.err \/ c.err
           ELSE /\ ~p.err /\ ~c.err
                /\ Vals(Res) = Vals(c.o)

C20_Witness ==
    /\ OfUnc
    /\ last.op = "mul"
    /\ last.other = last.self
    /\ ~Self.is_exact
    /\ ~Self.store
    /\ ~last.raised
    /\ ~Res.is_exact

(* C21: exp(a) of a retaining non-exact a retains (store is true) and its  *)
(* stored samples are the values its mean and sigmas were evaluated from;  *)
(* exp(a) of an exact a is the exact (e**a.mean_value, 0, 0).              *)
C21_ExpRetention ==
    (/\ last.op = "exp"
     /\ last.kind = "unc"
     /\ last.self # 0
     /\ ~last.raised)
    => IF Self.is_exact
       THEN Vals(Res) = <<nexp(Self.mean_value), 0, 0>> /\ Res.is_exact
       ELSE Self.store
            => /\ Res.store
               /\ Len(Res.random_values) > 1
               /\ evaluate(Res.random_values).val = Vals(Res)

(* C22: evaluate returns (mode, mode - interval_low, interval_high - mode) *)
(* with both distances >= 0, and when it is called without                 *)
(* force_inside_shortest_coverage on a sample whose most frequent value    *)
(* lies outside the shortest coverage interval it raises ValueError.       *)
C22_EvaluateContract ==
    last.op = "evaluate"
    => LET rand == last.val.rand_result
           s_cov == shortest_coverage(cdf(rand))
           mode == most_probable(rand)
           r == last.val.returned
       IN  /\ ~last.raised
               => /\ r[2] = r[1] - s_cov[1]
                  /\ r[3] = s_cov[2] - r[1]
                  /\ r[2] >= 0 /\ r[3] >= 0
           /\ (/\ ~last.val.force_inside_shortest_coverage
               /\ (mode < s_cov[1] \/ mode > s_cov[2]))
               => last.raised /\ last.val.error = "ValueError"

(* C25: shortest_coverage returns [x[i], x[i+k]] of the sorted sample x,   *)
(* k = floor(0.6827 n) < n, for the smallest i whose window is narrowest;  *)
(* the lower edge is <= the upper edge and both are values of the sample.  *)
C25_ShortestCoverage ==
    last.op = "shortest_coverage"
    => LET x == sort(last.val.rand)
           n == Len(x)
           k == (6827 * n) \div 10000
           r == last.val.returned
       IN  /\ k < n
           /\ \E i \in 1..(n - k) :
                  /\ r = <<x[i], x[i + k]>>
                  /\ \A j \in 1..(n - k) :
                         /\ x[i + k] - x[i] <= x[j + k] - x[j]
                         /\ j < i => x[i + k] - x[i] < x[j + k] - x[j]
           /\ r[1] <= r[2]
           /\ r[1] \in Range(last.val.rand) /\ r[2] \in Range(last.val.rand)

C25_Witness ==
    /\ last.op = "shortest_coverage"
    /\ Len(last.val.rand) = 4
    /\ last.val.returned[1] < last.val.returned[2]
    /\ last.val.returned[1] # sort(last.val.rand)[1]
    /\ last.val.rand # sort(last.val.rand)

(* The array an operand o of the general case is to contribute: its stored *)
(* values if it retains them, else n_random draws from its own mean,       *)
(* sigmas and limits with its own seed                                     *)
Contribution(o) ==
    IF o.store THEN o.random_values
    ELSE randn_asym(o.mean_value, <<o.sigma_low, o.sigma_up>>, Lim(o), o.seed,
                    o.n_random, rng).rand

(* C23: in +, -, *, / and ** of two distinct non-exact objects each        *)
(* operand contributes its own array whatever the flags of the other: the  *)
(* result is evaluated from the two contributions combined one by one.     *)
C23_OwnSamples ==
    (/\ OfUnc
     /\ last.op \in BinaryOps
     /\ last.other # last.self
     /\ ~Self.is_exact /\ ~Other.is_exact
     /\ ~last.raised)
    => LET a == Contribution(Self)
           b == Contribution(Other)
           combined == [i \in 1..Min(Len(a), Len(b)) |-> Binary(last.op, a[i], b[i])]
       IN  /\ Vals(Res) = evaluate(combined).val
           /\ Res.store => Res.random_values = combined

(* The operators of two operands, normal and reflected *)
AllBinaryOps ==
    {"add", "radd", "sub", "rsub", "mul", "rmul", "truediv", "rtruediv", "pow", "rpow"}

(* The Unc operands of the call recorded in c, as the objects os *)
UncOperands(c, os) ==
    {os[h] : h \in {c.self} \cup (IF c.kind = "unc" THEN {c.other} ELSE {})}

(* C24: in every binary operation the sampler is invoked only for operands *)
(* that are neither exact nor retaining, and not at all when there is no   *)
(* such operand.  Only the sampler seeds the generator, so an operation    *)
(* whose result draws nothing in its constructor (it raised, or the result *)
(* does not retain) leaves the generator as it was or as the sampling of   *)
(* one such operand leaves it.                                             *)
C24_ExactNotSampled ==
    [][(/\ last'.op \in AllBinaryOps
        /\ last'.kind \in {"num", "unc"}
        /\ last'.raised \/ ~objs'[last'.res].store)
       => rng' \in {rng} \cup
                   {randn(o, Lim(o), rng).rng :
                       o \in {p \in UncOperands(last', objs) :
                                 ~p.is_exact /\ ~p.store}}]_vars

(* The limits a call c of a setter asks for on the object o (those o has, *)
(* for set_n_random)                                                      *)
Requested(c, o) ==
    CASE c.op = "set_limits" ->
             IF c.val.kind = "new" THEN c.val.list ELSE lists[c.val.h]
      [] c.op = "set_lower_limit" -> List(<<c.val, Lim(o).v[2]>>)
      [] c.op = "set_upper_limit" -> List(<<Lim(o).v[1], c.val>>)
      [] c.op = "set_n_random" -> Lim(o)

(* The call c on the object o holding more than one sample gets as far as *)
(* sampling anew                                                          *)
Resamples(c, o) ==
    /\ c.op \in LimitSetters \cup {"set_n_random"}
    /\ Len(o.random_values) > 1
    /\ IF c.op = "set_n_random"
       THEN /\ c.val.kind = "int"
            /\ c.val.val >= 2
            /\ o.store
            /\ Len(o.random_values) < c.val.val
       ELSE /\ ~check_num_array_argument(Requested(c, o), 2, FALSE, TRUE)
            /\ ~check_limit_update(Lim(o).v, Requested(c, o).v).err
            /\ ~o.is_exact

(* C26: when an object holding L > 1 samples is sampled anew within its   *)
(* limits, with m of the samples inside: m < 2 raises, with neither       *)
(* warning of too few values; else the call warns of fewer than 1000      *)
(* values if m < 1000 and of less than 1 percent if m/L < 1%, does not    *)
(* raise, and leaves n_random samples, all inside the limits.             *)
C26_Resampling ==
    [][Resamples(last', objs[last'.self])
       => LET o == objs[last'.self]
              o2 == objs'[last'.self]
              lim == Requested(last', o).v
              L == Len(o.random_values)
              m == Len(SelectIn(o.random_values, lim[1], lim[2]))
          IN  IF m < 2
              THEN /\ last'.raised
                   /\ Count(last'.warns, "few_values") = 0
                   /\ Count(last'.warns, "few_percent") = 0
              ELSE /\ m < 1000 => Count(last'.warns, "few_values") = 1
                   /\ 100 * m < L => Count(last'.warns, "few_percent") = 1
                   /\ ~last'.raised
                   /\ Len(o2.random_values) = o2.n_random
                   /\ \A i \in 1..Len(o2.random_values) :
                          /\ o2.random_values[i] >= lim[1]
                          /\ o2.random_values[i] <= lim[2]]_vars

C26_Witness ==
    /\ last.op = "set_limits"
    /\ ~last.raised
    /\ Count(last.warns, "few_values") = 1
    /\ Count(last.warns, "few_percent") = 1
    /\ Len(Self.random_values) = ManyLen
    /\ \A i \in 1..ManyLen : Self.random_values[i] \in {1, 2}

(* C27: after a call of set_limits, set_lower_limit or set_upper_limit     *)
(* that did not raise, the mean and the sigmas of the object, exact or     *)
(* not, lie within the new limits:                                         *)
(* lower <= mean - sigma_low and mean + sigma_up <= upper.                 *)
C27_WithinLimits ==
    (last.op \in LimitSetters /\ ~last.raised)
    => /\ Lim(Self).v[1] <= Self.mean_value - Self.sigma_low
       /\ Self.mean_value + Self.sigma_up <= Lim(Self).v[2]

(* The seeds of the objects the threads have made, and the threads that   *)
(* are in none of their constructors                                      *)
ThreadSeeds == [t \in 1..NThreads |-> threads[t].seeds]
ThreadsIdle == \A t \in 1..NThreads : threads[t].pc = "start"

(* C28: the read and the increment of the counter in the constructor are  *)
(* atomic: when threads construct objects at the same time, under every   *)
(* interleaving no two objects get the same seed and the counter ends up  *)
(* advanced by the number of objects made.                                *)
C28_AtomicCounter ==
    /\ \A t \in 1..NThreads, u \in 1..NThreads :
           \A i \in 1..Len(ThreadSeeds[t]), j \in 1..Len(ThreadSeeds[u]) :
               (t # u \/ i # j) => ThreadSeeds[t][i] # ThreadSeeds[u][j]
    /\ ThreadsIdle
       => n_instances = Len(ThreadSeeds[1]) + Len(ThreadSeeds[2])

(* What the call c of a setter that samples leaves of the object o, whose *)
(* limits are then the list lim in slot handle, when the generator is in  *)
(* the state the other objects happen to have left it in                  *)
SetterOutcome(c, o, handle, lim, state) ==
    IF c.op = "set_n_random" THEN set_n_random(o, c.val, lim, state).o
    ELSE IF o.is_exact THEN [o EXCEPT !.limits = handle]
    ELSE sample_random_numbers([o EXCEPT !.limits = handle], lim, state).o

(* C29: the counter of the instances is all that the objects share: what  *)
(* set_limits, set_lower_limit, set_upper_limit and set_n_random leave of *)
(* an object depends on the fields of that object only, and is the same   *)
(* whatever the calls on other objects before have done.                  *)
C29_OwnFieldsOnly ==
    [][(/\ last'.op \in LimitSetters \cup {"set_n_random"}
        /\ ~last'.raised)
       => \A state \in 0..(RngMod - 1) :
              SetterOutcome(last', objs[last'.self], objs'[last'.self].limits,
                            lists'[objs'[last'.self].limits], state)
                  = objs'[last'.self]]_vars

(* C30: every object owns its limits: set_limits, set_lower_limit and     *)
(* set_upper_limit on one object leave the limits of every other object   *)
(* as they were, also of one that was constructed from the same list.     *)
C30_OwnLimits ==
    [][last'.op \in LimitSetters
       => \A g \in Handles :
              g # last'.self => lists'[objs'[g].limits] = lists[objs[g].limits]]_vars

====
